---------------------------- MODULE Spec2Model ----------------------------
(***************************************************************************)
(* Model of the assessment generator: the request schema (schema.py), the  *)
(* prompt renderer (promptmanager.py), the generation client               *)
(* (llmmanager.py) and the orchestrating agent (assementagent.py).         *)
(*                                                                         *)
(* Texts are sequences of one-character strings, so that Python's slicing, *)
(* startswith/endswith and strip act on them character by character.      *)
(* Python values are tagged pairs <<tag, payload>>:                        *)
(*   <<"null", 0>>, <<"bool", b>>, <<"int", n>>, <<"str", text>>,          *)
(*   <<"arr", sequence of values>>,                                        *)
(*   <<"obj", sequence of <<key text, value>> pairs in document order>>,   *)
(*   <<class name, record of fields>> for an instance of a schema class.   *)
(***************************************************************************)
EXTENDS Integers, Sequences, FiniteSets, TLC

VARIABLES
    pc,          \* position of the caller: "idle", "calling", "done"
    templates,   \* template files present in the prompts directory
    arg,         \* the argument handed to AssesmentAgent.invoke
    sent,        \* completion calls issued by this invocation
    reply,       \* how the completion call ended
    content,     \* response.choices[0].message.content of the reply
    loaded,      \* the text handed to json.loads, NotReached if never reached
    steps,       \* the steps this invocation performed, in order
    log,         \* records written with logger.error by this invocation
    llm_out,     \* how create_assessment ended
    out,         \* how invoke ended
    kwargs,      \* keyword arguments of an AssessmentRequest construction
    built,       \* how that construction ended
    mcq_percentage,          \* the three sliders of the form, in tenths
    short_answer_percentage,
    long_answer_percentage,
    current_assessment,      \* st.session_state.current_assessment
    assessment_history,      \* st.session_state.assessment_history
    current_page,            \* st.session_state.current_page
    shown        \* what this run of the script displayed: warnings, errors

\* the widgets and the session of the form
formvars == <<mcq_percentage, short_answer_percentage, long_answer_percentage,
              current_assessment, assessment_history, current_page, shown>>

vars == <<pc, templates, arg, sent, reply, content, loaded, steps, log, llm_out, out,
          kwargs, built, formvars>>

(***************************************************************************)
(* Bounds of the model.                                                    *)
(***************************************************************************)
\* longest text drawn freely from Alphabet as a reply payload
MaxLen == 3
\* largest total_marks given to a construction
MaxMarks == 2

(***************************************************************************)
(* Texts are sequences of characters.                                      *)
(***************************************************************************)
\* the text of a str literal: Chars("json") is <<"j", "s", "o", "n">>
Chars(literal) == [n \in 1..Len(literal) |-> SubSeq(literal, n, n)]

(***************************************************************************)
(* Python values and exceptions.                                           *)
(***************************************************************************)
None == <<"null", 0>>
Str(text) == <<"str", text>>
Num(n) == <<"int", n>>
Bool(b) == <<"bool", b>>
Arr(items) == <<"arr", items>>
Obj(members) == <<"obj", members>>
\* a variable that no statement has assigned yet
NotReached == <<"unset", 0>>

\* an exception object: its class and the segments of its message
Cls(e) == e[2]
Args(e) == e[3]
Exc(cls, args) == <<"exc", cls, args>>
\* a literal piece of a message, and a value interpolated with {..}
Lit(s) == <<"lit", s>>
Fmt(x) == <<"fmt", x>>

\* the tag and the payload of a value
Tag(x) == x[1]
Val(x) == x[2]

\* how a call ended: <<"return", value>> or <<"raise", exception>>
Return(x) == <<"return", x>>
Raise(e) == <<"raise", e>>
Pending == <<"none", NotReached>>

(***************************************************************************)
(* str methods used by the cleaning step.                                  *)
(***************************************************************************)
\* the characters str.strip() removes, among those of the model
PyWhitespace == {" ", "\n", "\t", "\r"}

startswith(data, prefix) ==
    /\ Len(data) >= Len(prefix)
    /\ SubSeq(data, 1, Len(prefix)) = prefix

endswith(data, suffix) ==
    /\ Len(data) >= Len(suffix)
    /\ SubSeq(data, Len(data) - Len(suffix) + 1, Len(data)) = suffix

\* data[k:]
SliceFrom(data, k) == SubSeq(data, k + 1, Len(data))

\* data[:-k]
SliceOffEnd(data, k) == SubSeq(data, 1, Len(data) - k)

RECURSIVE lstrip(_)
lstrip(data) ==
    IF data # <<>> /\ Head(data) \in PyWhitespace THEN lstrip(Tail(data)) ELSE data

RECURSIVE rstrip(_)
rstrip(data) ==
    IF data # <<>> /\ data[Len(data)] \in PyWhitespace
    THEN rstrip(SubSeq(data, 1, Len(data) - 1))
    ELSE data

strip(data) == rstrip(lstrip(data))

(***************************************************************************)
(* json.loads, for the JSON of the model: objects, arrays, strings without *)
(* escapes, integers, true, false and null, separated by JSON whitespace.  *)
(***************************************************************************)
JsonWhitespace == {" ", "\t", "\n", "\r"}
Digits == <<"0", "1", "2", "3", "4", "5", "6", "7", "8", "9">>
DigitSet == {Digits[i] : i \in DOMAIN Digits}
DigitVal(c) == (CHOOSE i \in DOMAIN Digits : Digits[i] = c) - 1

\* the character at position i; "" past either end
At(s, i) == IF i \in 1..Len(s) THEN s[i] ELSE ""

Parsed(val, next) == [ok |-> TRUE, val |-> val, next |-> next]
Failed(at) == [ok |-> FALSE, val |-> NotReached, next |-> at]

RECURSIVE SkipWs(_, _)
SkipWs(s, i) == IF At(s, i) \in JsonWhitespace THEN SkipWs(s, i + 1) ELSE i

\* the index of the quote that closes a string whose body starts at i; 0 if
\* the text ends or holds a control character first
RECURSIVE ScanString(_, _)
ScanString(s, i) ==
    IF i > Len(s) \/ s[i] \in {"\n", "\t", "\r", "\\"} THEN 0
    ELSE IF s[i] = "\"" THEN i
    ELSE ScanString(s, i + 1)

ParseString(s, i) ==
    LET close == ScanString(s, i + 1)
    IN  IF close = 0 THEN Failed(i)
        ELSE Parsed(Str(SubSeq(s, i + 1, close - 1)), close + 1)

RECURSIVE ScanDigits(_, _, _)
ScanDigits(s, i, acc) ==
    IF At(s, i) \in DigitSet
    THEN ScanDigits(s, i + 1, 10 * acc + DigitVal(s[i]))
    ELSE [val |-> acc, next |-> i]

\* -?(0|[1-9][0-9]*)
ParseNumber(s, i) ==
    LET neg == At(s, i) = "-"
        j == IF neg THEN i + 1 ELSE i
        d == IF At(s, j) = "0" THEN [val |-> 0, next |-> j + 1]
             ELSE ScanDigits(s, j, 0)
    IN  IF At(s, j) \notin DigitSet THEN Failed(i)
        ELSE Parsed(Num(IF neg THEN 0 - d.val ELSE d.val), d.next)

ParseLiteral(s, i, word, val) ==
    IF i + Len(word) - 1 <= Len(s) /\ SubSeq(s, i, i + Len(word) - 1) = word
    THEN Parsed(val, i + Len(word))
    ELSE Failed(i)

\* a dict keeps one entry per key: a repeated key keeps its place and takes
\* the later value
PutMember(members, key, val) ==
    IF \E n \in DOMAIN members : members[n][1] = key
    THEN [n \in DOMAIN members |->
             IF members[n][1] = key THEN <<key, val>> ELSE members[n]]
    ELSE Append(members, <<key, val>>)

RECURSIVE ParseValue(_, _), ParseMembers(_, _, _), ParseElements(_, _, _)
ParseValue(s, i) ==
    LET c == At(s, i)
    IN  IF c = "\"" THEN ParseString(s, i)
        ELSE IF c = "{" THEN
            LET j == SkipWs(s, i + 1)
            IN  IF At(s, j) = "}" THEN Parsed(Obj(<<>>), j + 1)
                ELSE ParseMembers(s, j, <<>>)
        ELSE IF c = "[" THEN
            LET j == SkipWs(s, i + 1)
            IN  IF At(s, j) = "]" THEN Parsed(Arr(<<>>), j + 1)
                ELSE ParseElements(s, j, <<>>)
        ELSE IF c = "n" THEN ParseLiteral(s, i, Chars("null"), None)
        ELSE IF c = "t" THEN ParseLiteral(s, i, Chars("true"), Bool(TRUE))
        ELSE IF c = "f" THEN ParseLiteral(s, i, Chars("false"), Bool(FALSE))
        ELSE IF c = "-" \/ c \in DigitSet THEN ParseNumber(s, i)
        ELSE Failed(i)

\* s[i] is where a member's key must start
ParseMembers(s, i, acc) ==
    IF At(s, i) # "\"" THEN Failed(i)
    ELSE
        LET key == ParseString(s, i)
            colon == SkipWs(s, key.next)
            val == ParseValue(s, SkipWs(s, colon + 1))
            after == SkipWs(s, val.next)
            members == PutMember(acc, Val(key.val), val.val)
        IN  IF ~key.ok THEN Failed(i)
            ELSE IF At(s, colon) # ":" THEN Failed(colon)
            ELSE IF ~val.ok THEN val
            ELSE IF At(s, after) = "}" THEN Parsed(Obj(members), after + 1)
            ELSE IF At(s, after) = "," THEN
                ParseMembers(s, SkipWs(s, after + 1), members)
            ELSE Failed(after)

\* s[i] is where an element must start
ParseElements(s, i, acc) ==
    LET val == ParseValue(s, i)
        after == SkipWs(s, val.next)
        items == Append(acc, val.val)
    IN  IF ~val.ok THEN val
        ELSE IF At(s, after) = "]" THEN Parsed(Arr(items), after + 1)
        ELSE IF At(s, after) = "," THEN
            ParseElements(s, SkipWs(s, after + 1), items)
        ELSE Failed(after)

JSONDecodeError == Exc("JSONDecodeError", <<>>)

\* json.loads(text): the value, or JSONDecodeError
json_loads(text) ==
    LET r == ParseValue(text, SkipWs(text, 1))
    IN  IF ~r.ok THEN Raise(JSONDecodeError)
        ELSE IF SkipWs(text, r.next) # Len(text) + 1 THEN Raise(JSONDecodeError)
        ELSE Return(r.val)

(***************************************************************************)
(* pydantic validation (lax mode, extra keys ignored).  A validator takes  *)
(* a value and yields [ok, got]: whether it is accepted and the validated  *)
(* value.  A float is <<"float", n>>, standing for n / 10.                 *)
(***************************************************************************)
Float(tenths) == <<"float", tenths>>
Accept(x) == [ok |-> TRUE, got |-> x]
Reject == [ok |-> FALSE, got |-> NotReached]

HasKey(members, key) == \E n \in DOMAIN members : members[n][1] = key
Get(members, key) ==
    IF HasKey(members, key)
    THEN members[CHOOSE n \in DOMAIN members : members[n][1] = key][2]
    ELSE NotReached

\* a field with a default: the default when the key is not given
Default(given, validated, default) ==
    IF given = NotReached THEN Accept(default) ELSE validated

v_str(x) == IF Tag(x) = "str" THEN Accept(x) ELSE Reject

IsIntText(text) ==
    LET body == IF At(text, 1) = "-" THEN Tail(text) ELSE text
    IN  body # <<>> /\ \A n \in DOMAIN body : body[n] \in DigitSet

IntOfText(text) ==
    IF At(text, 1) = "-" THEN 0 - ScanDigits(text, 2, 0).val
    ELSE ScanDigits(text, 1, 0).val

v_int(x) ==
    IF Tag(x) = "int" THEN Accept(x)
    ELSE IF Tag(x) = "bool" THEN Accept(Num(IF Val(x) THEN 1 ELSE 0))
    ELSE IF Tag(x) = "float" /\ Val(x) % 10 = 0 THEN Accept(Num(Val(x) \div 10))
    ELSE IF Tag(x) = "str" /\ IsIntText(Val(x)) THEN Accept(Num(IntOfText(Val(x))))
    ELSE Reject

\* an int field whose bound is ge=0
v_int_ge0(x) ==
    LET r == v_int(x) IN IF r.ok /\ Val(r.got) >= 0 THEN r ELSE Reject

\* int, ge=1
v_int_ge1(x) ==
    LET r == v_int(x) IN IF r.ok /\ Val(r.got) >= 1 THEN r ELSE Reject

\* float, ge=0, le=1
v_float_0_1(x) ==
    LET r == IF Tag(x) = "float" THEN Accept(x)
             ELSE IF Tag(x) = "int" THEN Accept(Float(10 * Val(x)))
             ELSE Reject
    IN  IF r.ok /\ Val(r.got) >= 0 /\ Val(r.got) <= 10 THEN r ELSE Reject

BoolTrueTexts == {<<"1">>, <<"o", "n">>, <<"t">>, Chars("true"), <<"y">>, <<"y", "e", "s">>}
BoolFalseTexts == {<<"0">>, <<"o", "f", "f">>, <<"f">>, Chars("false"), <<"n">>, <<"n", "o">>}

v_bool(x) ==
    IF Tag(x) = "bool" THEN Accept(x)
    ELSE IF Tag(x) = "int" /\ Val(x) \in {0, 1} THEN Accept(Bool(Val(x) = 1))
    ELSE IF Tag(x) = "str" /\ Val(x) \in BoolTrueTexts THEN Accept(Bool(TRUE))
    ELSE IF Tag(x) = "str" /\ Val(x) \in BoolFalseTexts THEN Accept(Bool(FALSE))
    ELSE Reject

v_dict(x) == IF Tag(x) = "obj" THEN Accept(x) ELSE Reject

\* Optional[T], given how T validates the value
Optional(x, validated) == IF Tag(x) = "null" THEN Accept(None) ELSE validated

\* List[T], given how T validates each item
ListOf(items) ==
    IF \A n \in DOMAIN items : items[n].ok
    THEN Accept(Arr([n \in DOMAIN items |-> items[n].got]))
    ELSE Reject

v_list_str(x) ==
    IF Tag(x) # "arr" THEN Reject
    ELSE ListOf([n \in DOMAIN Val(x) |-> v_str(Val(x)[n])])
v_optional_str(x) == Optional(x, v_str(x))
v_optional_int(x) == Optional(x, v_int(x))
v_optional_list_str(x) == Optional(x, v_list_str(x))
v_optional_float_0_1(x) == Optional(x, v_float_0_1(x))

\* Optional[Union[str, List[str]]]
v_optional_str_or_list(x) ==
    IF Tag(x) = "null" THEN Accept(None)
    ELSE IF Tag(x) = "str" THEN Accept(x)
    ELSE v_list_str(x)

BloomsTaxonomyLevel ==
    {Chars("remember"), Chars("understand"), Chars("apply"), Chars("analyze"), Chars("evaluate"), Chars("create")}
DifficultyLevel == {Chars("easy"), Chars("medium"), Chars("hard"), Chars("very_hard")}
QuestionType == {Chars("multiple_choice"), Chars("short_answer"), Chars("long_answer")}

v_enum(members, x) == IF Tag(x) = "str" /\ Val(x) \in members THEN Accept(x) ELSE Reject
v_BloomsTaxonomyLevel(x) == v_enum(BloomsTaxonomyLevel, x)
v_DifficultyLevel(x) == v_enum(DifficultyLevel, x)
v_QuestionType(x) == v_enum(QuestionType, x)

\* a model instance: its class and its fields
Instance(cls, fields) == <<cls, fields>>
AllOk(f) == \A k \in DOMAIN f : f[k].ok
Build(cls, f) ==
    IF AllOk(f) THEN Accept(Instance(cls, [k \in DOMAIN f |-> f[k].got])) ELSE Reject

v_MCQOption(x) ==
    LET f(key) == Get(Val(x), key)
    IN  IF Tag(x) # "obj" THEN Reject
        ELSE Build("MCQOption",
            [option_id  |-> v_str(f(Chars("option_id"))),
             text       |-> v_str(f(Chars("text"))),
             is_correct |-> Default(f(Chars("is_correct")), v_bool(f(Chars("is_correct"))),
                                    Bool(FALSE))])

v_AnswerKey(x) ==
    LET f(key) == Get(Val(x), key)
    IN  IF Tag(x) # "obj" THEN Reject
        ELSE Build("AnswerKey",
            [correct_answer |->
                 Default(f(Chars("correct_answer")),
                         v_optional_str_or_list(f(Chars("correct_answer"))), None),
             explanation |->
                 Default(f(Chars("explanation")), v_optional_str(f(Chars("explanation"))), None),
             marking_criteria |->
                 Default(f(Chars("marking_criteria")),
                         v_optional_str(f(Chars("marking_criteria"))), None),
             key_points |->
                 Default(f(Chars("key_points")), v_optional_list_str(f(Chars("key_points"))),
                         None)])

v_list_MCQOption(x) ==
    IF Tag(x) # "arr" THEN Reject
    ELSE ListOf([n \in DOMAIN Val(x) |-> v_MCQOption(Val(x)[n])])
v_optional_list_MCQOption(x) == Optional(x, v_list_MCQOption(x))

v_Question(x) ==
    LET f(key) == Get(Val(x), key)
    IN  IF Tag(x) # "obj" THEN Reject
        ELSE Build("Question",
            [question_type |-> v_QuestionType(f(Chars("question_type"))),
             question_text |-> v_str(f(Chars("question_text"))),
             marks         |-> v_int_ge1(f(Chars("marks"))),
             blooms_level  |-> v_BloomsTaxonomyLevel(f(Chars("blooms_level"))),
             difficulty    |-> v_DifficultyLevel(f(Chars("difficulty"))),
             options       |->
                 Default(f(Chars("options")), v_optional_list_MCQOption(f(Chars("options"))),
                         None),
             answer_key    |-> v_AnswerKey(f(Chars("answer_key"))),
             learning_objective_covered |->
                 Default(f(Chars("learning_objective_covered")),
                         v_optional_str(f(Chars("learning_objective_covered"))), None),
             estimated_time_minutes |->
                 Default(f(Chars("estimated_time_minutes")),
                         v_optional_int(f(Chars("estimated_time_minutes"))), None)])

v_AssessmentMetadata(x) ==
    LET f(key) == Get(Val(x), key)
    IN  IF Tag(x) # "obj" THEN Reject
        ELSE Build("AssessmentMetadata",
            [total_questions |-> v_int(f(Chars("total_questions"))),
             total_marks     |-> v_int(f(Chars("total_marks"))),
             estimated_duration_minutes |->
                 Default(f(Chars("estimated_duration_minutes")),
                         v_optional_int(f(Chars("estimated_duration_minutes"))), None),
             difficulty_distribution    |-> v_dict(f(Chars("difficulty_distribution"))),
             question_type_distribution |-> v_dict(f(Chars("question_type_distribution"))),
             blooms_level_coverage      |-> v_dict(f(Chars("blooms_level_coverage")))])

v_list_Question(x) ==
    IF Tag(x) # "arr" THEN Reject
    ELSE ListOf([n \in DOMAIN Val(x) |-> v_Question(Val(x)[n])])

v_AssessmentResult(x) ==
    LET f(key) == Get(Val(x), key)
    IN  IF Tag(x) # "obj" THEN Reject
        ELSE Build("AssessmentResult",
            [title       |-> v_str(f(Chars("title"))),
             description |->
                 Default(f(Chars("description")), v_optional_str(f(Chars("description"))), None),
             curriculum_standard  |-> v_str(f(Chars("curriculum_standard"))),
             learning_objectives  |-> v_str(f(Chars("learning_objectives"))),
             target_blooms_level  |-> v_BloomsTaxonomyLevel(f(Chars("target_blooms_level"))),
             questions            |-> v_list_Question(f(Chars("questions"))),
             metadata             |-> v_AssessmentMetadata(f(Chars("metadata"))),
             student_instructions |-> v_str(f(Chars("student_instructions"))),
             teacher_notes |->
                 Default(f(Chars("teacher_notes")), v_optional_str(f(Chars("teacher_notes"))),
                         None)])

\* json.dumps(AssessmentResult.model_json_schema()), kept as one opaque character
ResponseFormatDefault == Str(<<"<AssessmentResult.model_json_schema()>">>)

v_AssessmentRequest(x) ==
    LET f(key) == Get(Val(x), key)
    IN  IF Tag(x) # "obj" THEN Reject
        ELSE Build("AssessmentRequest",
            [curriculum_standard   |-> v_str(f(Chars("curriculum_standard"))),
             learning_objectives   |-> v_str(f(Chars("learning_objectives"))),
             blooms_taxonomy_level |->
                 v_BloomsTaxonomyLevel(f(Chars("blooms_taxonomy_level"))),
             toughness_level       |-> v_DifficultyLevel(f(Chars("toughness_level"))),
             total_marks           |-> v_int_ge1(f(Chars("total_marks"))),
             number_of_questions   |-> v_int_ge1(f(Chars("number_of_questions"))),
             additional_prompts |->
                 Default(f(Chars("additional_prompts")),
                         v_optional_str(f(Chars("additional_prompts"))), None),
             mcq_percentage |->
                 Default(f(Chars("mcq_percentage")),
                         v_optional_float_0_1(f(Chars("mcq_percentage"))), Float(4)),
             short_answer_percentage |->
                 Default(f(Chars("short_answer_percentage")),
                         v_optional_float_0_1(f(Chars("short_answer_percentage"))),
                         Float(3)),
             long_answer_percentage |->
                 Default(f(Chars("long_answer_percentage")),
                         v_optional_float_0_1(f(Chars("long_answer_percentage"))),
                         Float(3)),
             response_format |->
                 Default(f(Chars("response_format")),
                         v_optional_str(f(Chars("response_format"))),
                         ResponseFormatDefault)])

ValidationError(cls) == Exc("ValidationError", <<Lit(cls)>>)

\* a construction of the result that skips validation
model_validate_unchecked(data) == Return(data)

\* AssessmentResult.model_validate(data)
model_validate(data) ==
    LET r == v_AssessmentResult(data)
    IN  IF r.ok THEN Return(r.got) ELSE Raise(ValidationError("AssessmentResult"))

\* AssessmentRequest(...) called with the keyword arguments kw
AssessmentRequest(kw) ==
    LET r == v_AssessmentRequest(kw)
    IN  IF r.ok THEN Return(r.got) ELSE Raise(ValidationError("AssessmentRequest"))

(***************************************************************************)
(* The replies of the generation service.  A reply text is a payload,      *)
(* wrapped or not in a Markdown code fence.  Payloads are every text of at *)
(* most MaxLen characters of Alphabet and the texts of some documents.     *)
(***************************************************************************)
\* the backquote character (a TLA+ string cannot hold it)
Backquote == "<backquote>"
Fence == <<Backquote, Backquote, Backquote>>
FenceJson == Fence \o Chars("json")

Alphabet == {Backquote, " ", "\n", "{", "}", "1"}
SmallTexts == UNION {[1..n -> Alphabet] : n \in 0..MaxLen}

RECURSIVE DigitsOf(_)
DigitsOf(n) ==
    IF n < 10 THEN <<Digits[n + 1]>> ELSE Append(DigitsOf(n \div 10), Digits[(n % 10) + 1])

\* the compact JSON text of a value
RECURSIVE Dump(_), DumpItems(_, _), DumpMembers(_, _)
Dump(x) ==
    IF Tag(x) = "null" THEN Chars("null")
    ELSE IF Tag(x) = "bool" THEN (IF Val(x) THEN Chars("true") ELSE Chars("false"))
    ELSE IF Tag(x) = "int" THEN
        (IF Val(x) < 0 THEN <<"-">> \o DigitsOf(0 - Val(x)) ELSE DigitsOf(Val(x)))
    ELSE IF Tag(x) = "str" THEN <<"\"">> \o Val(x) \o <<"\"">>
    ELSE IF Tag(x) = "arr" THEN <<"[">> \o DumpItems(Val(x), 1) \o <<"]">>
    ELSE <<"{">> \o DumpMembers(Val(x), 1) \o <<"}">>

DumpItems(items, n) ==
    IF n > Len(items) THEN <<>>
    ELSE (IF n > 1 THEN <<",">> ELSE <<>>) \o Dump(items[n]) \o DumpItems(items, n + 1)

DumpMembers(members, n) ==
    IF n > Len(members) THEN <<>>
    ELSE (IF n > 1 THEN <<",">> ELSE <<>>)
         \o <<"\"">> \o members[n][1] \o <<"\"", ":">> \o Dump(members[n][2])
         \o DumpMembers(members, n + 1)

\* a mapping without the key, and with the key set to val
Without(x, key) == Obj(SelectSeq(Val(x), LAMBDA m : m[1] # key))
With(x, key, val) == Obj(PutMember(Val(x), key, val))

OptionDoc ==
    Obj(<< <<Chars("option_id"), Str(<<"A">>)>>, <<Chars("text"), Str(<<"x">>)>>,
           <<Chars("is_correct"), Bool(TRUE)>> >>)
AnswerKeyDoc ==
    Obj(<< <<Chars("correct_answer"), Str(<<"A">>)>>, <<Chars("key_points"), Arr(<<Str(<<"k">>)>>)>> >>)
QuestionDoc ==
    Obj(<< <<Chars("question_type"), Str(Chars("multiple_choice"))>>,
           <<Chars("question_text"), Str(<<"Q">>)>>,
           <<Chars("marks"), Num(5)>>,
           <<Chars("blooms_level"), Str(Chars("apply"))>>,
           <<Chars("difficulty"), Str(Chars("easy"))>>,
           <<Chars("options"), Arr(<<OptionDoc>>)>>,
           <<Chars("answer_key"), AnswerKeyDoc>> >>)
MetadataDoc ==
    Obj(<< <<Chars("total_questions"), Num(1)>>,
           <<Chars("total_marks"), Num(5)>>,
           <<Chars("difficulty_distribution"), Obj(<< <<Chars("easy"), Num(1)>> >>)>>,
           <<Chars("question_type_distribution"), Obj(<<>>)>>,
           <<Chars("blooms_level_coverage"), Obj(<<>>)>> >>)
ResultDoc ==
    Obj(<< <<Chars("title"), Str(<<"T">>)>>,
           <<Chars("curriculum_standard"), Str(<<"C">>)>>,
           <<Chars("learning_objectives"), Str(<<"L">>)>>,
           <<Chars("target_blooms_level"), Str(Chars("apply"))>>,
           <<Chars("questions"), Arr(<<QuestionDoc>>)>>,
           <<Chars("metadata"), MetadataDoc>>,
           <<Chars("student_instructions"), Str(<<"S">>)>> >>)

WithQuestion(q) == With(ResultDoc, Chars("questions"), Arr(<<q>>))

Documents ==
    << ResultDoc,
       With(ResultDoc, Chars("questions"), Arr(<<>>)),
       With(ResultDoc, Chars("teacher_notes"), None),
       With(ResultDoc, <<"a">>, Num(1)),
       WithQuestion(With(QuestionDoc, Chars("marks"), Str(<<"5">>))),
       Without(ResultDoc, Chars("metadata")),
       Without(ResultDoc, Chars("title")),
       With(ResultDoc, Chars("metadata"), None),
       With(ResultDoc, Chars("target_blooms_level"), Str(Chars("hard"))),
       With(ResultDoc, Chars("metadata"), Without(MetadataDoc, Chars("total_marks"))),
       WithQuestion(With(QuestionDoc, Chars("marks"), Num(0))),
       WithQuestion(Without(QuestionDoc, Chars("answer_key"))),
       WithQuestion(With(QuestionDoc, Chars("options"),
                         Arr(<<Without(OptionDoc, Chars("text"))>>))),
       WithQuestion(With(QuestionDoc, Chars("answer_key"),
                         With(AnswerKeyDoc, Chars("key_points"), Str(<<"k">>)))),
       Obj(<< <<(<<"a">>), Num(1)>> >>),
       Arr(<<ResultDoc>>) >>

DocumentTexts == {Dump(Documents[n]) : n \in DOMAIN Documents}
\* a reply cut short by the service
TruncatedTexts == {SubSeq(Dump(ResultDoc), 1, Len(Dump(ResultDoc)) - 1)}

Payloads == SmallTexts \cup DocumentTexts \cup TruncatedTexts

Variants == {"plain", "json", "bare", "leading", "trailing", "tight"}
Wrap(variant, P) ==
    CASE variant = "plain"    -> P
      [] variant = "json"     -> FenceJson \o <<"\n">> \o P \o <<"\n">> \o Fence
      [] variant = "bare"     -> Fence \o <<"\n">> \o P \o <<"\n">> \o Fence
      [] variant = "leading"  -> <<" ">> \o FenceJson \o <<"\n">> \o P \o <<"\n">> \o Fence
      [] variant = "trailing" -> FenceJson \o <<"\n">> \o P \o <<"\n">> \o Fence \o <<"\n">>
      [] variant = "tight"    -> FenceJson \o P \o Fence

\* message.content of a choice: a text, or None
Contents == {Str(Wrap(variant, P)) : variant \in Variants, P \in Payloads} \cup {None}

Choice(c) == [message |-> [content |-> c]]
\* response.choices: no choice, one, or two of which the first counts
Responses ==
    {[choices |-> Arr(<<>>)], [choices |-> None]}
    \cup {[choices |-> Arr(<<Choice(c)>>)] : c \in Contents}
    \cup {[choices |-> Arr(<<Choice(c), Choice(Str(Dump(ResultDoc)))>>)] :
             c \in {None, Str(<<>>)}}

\* what the completion call raises when it fails outright
TransportErrors ==
    {Exc("APIConnectionError", <<Lit("Connection error.")>>),
     Exc("AuthenticationError", <<Lit("Incorrect API key provided")>>),
     Exc("RateLimitError", <<Lit("You exceeded your current quota")>>)}

(***************************************************************************)
(* The caller's arguments.                                                 *)
(***************************************************************************)
\* a keyword that the caller does not pass
Absent == NotReached
Keywords(pairs) == Obj(SelectSeq(pairs, LAMBDA m : m[2] # Absent))

KeywordsOf(marks, count, mcq, short, long, blooms, toughness) ==
    Keywords(<< <<Chars("curriculum_standard"), Str(<<"C">>)>>,
                <<Chars("learning_objectives"), Str(<<"L">>)>>,
                <<Chars("blooms_taxonomy_level"), blooms>>,
                <<Chars("toughness_level"), toughness>>,
                <<Chars("total_marks"), marks>>,
                <<Chars("number_of_questions"), count>>,
                <<Chars("mcq_percentage"), mcq>>,
                <<Chars("short_answer_percentage"), short>>,
                <<Chars("long_answer_percentage"), long>> >>)

\* what the form passes with its widgets left alone
FormKeywords ==
    KeywordsOf(Num(50), Num(5), Float(4), Float(3), Float(3),
               Str(Chars("understand")), Str(Chars("medium")))

\* what invoke is called with: a request, a dict with the same keys, None
Arguments == {Val(AssessmentRequest(FormKeywords)), FormKeywords, None}

\* the model's choice of keyword arguments for a construction
MarksGiven == {Absent, Str(<<"x">>)} \cup {Num(n) : n \in -1..MaxMarks}
CountGiven == {Num(0), Num(1)}
FractionGiven == {Absent, None} \cup {Float(n) : n \in {-1, 0, 10, 11}}
BloomsGiven == {Str(Chars("remember")), Str(Chars("create")), Str(Chars("easy"))}
ToughnessGiven == {Str(Chars("very_hard")), Str(Chars("create"))}
KeywordChoices ==
    {KeywordsOf(marks, count, mcq, short, long, blooms, toughness) :
        marks \in MarksGiven, count \in CountGiven, mcq \in FractionGiven,
        short \in FractionGiven, long \in FractionGiven,
        blooms \in BloomsGiven, toughness \in ToughnessGiven}

(***************************************************************************)
(* PromptManager, LLMManeger and AssesmentAgent.                           *)
(***************************************************************************)
ValueError(args) == Exc("ValueError", args)
AttributeError(args) == Exc("AttributeError", args)
TemplateNotFound(name) == Exc("TemplateNotFound", <<Lit(name)>>)

\* request.model_dump()
model_dump(request) == Val(request)

\* the text a template renders from its variables
Rendered(template, var) == <<"rendered", [template |-> template, var |-> var]>>

render_prompt(prompt_name, var) ==
    LET template == prompt_name \o ".j2"
    IN  IF template \in templates THEN Return(Rendered(template, var))
        ELSE Raise(TemplateNotFound(template))

\* a completion call that sends the prompt without the system message
Completion_user_only(prompt) ==
    [model |-> "LLM_MODEL",
     messages |-> << [role |-> "user", content |-> prompt] >>]

\* the completion call of create_assessment
Completion(prompt) ==
    [model |-> "LLM_MODEL",
     messages |-> << [role |-> "system",
                      content |-> Lit("You are an expert assessment generator.")],
                     [role |-> "user", content |-> prompt] >>]

\* an opening-fence step that strips the text whether it is fenced or not
strip_opening_fence_always(data) ==
    strip(IF startswith(data, FenceJson) THEN SliceFrom(data, 8) ELSE data)

strip_opening_fence(data) ==
    IF startswith(data, FenceJson) THEN strip(SliceFrom(data, 8)) ELSE data

\* a closing-fence step that forgets the strip
strip_closing_fence_unstripped(data) ==
    IF endswith(data, Fence) THEN SliceOffEnd(data, 3) ELSE data

strip_closing_fence(data) ==
    IF endswith(data, Fence) THEN strip(SliceOffEnd(data, 3)) ELSE data

\* how _clean_json ends, and the text it handed to json.loads
_clean_json(data) ==
    IF Tag(data) # "str"
    THEN [end |-> Raise(AttributeError(
                     <<Lit("'NoneType' object has no attribute 'startswith'")>>)),
          loaded |-> NotReached]
    ELSE
        LET text == strip_closing_fence(strip_opening_fence(Val(data)))
        IN  [end |-> json_loads(text), loaded |-> Str(text)]

\* bool(response.choices)
Truthy(choices) == Tag(choices) = "arr" /\ Val(choices) # <<>>

\* an except clause that raises without logging the content
parse_failure_unlogged(c, e) ==
    [end |-> Raise(ValueError(<<Lit("Failed to parse JSON response: "), Fmt(e)>>)),
     log |-> <<>>]

\* an except clause that logs the content and raises the caught error again
parse_failure_reraise(c, e) ==
    [end |-> Raise(e),
     log |-> << <<Lit("Error parsing response: "), Fmt(c)>> >>]

\* the except clause: the content c is logged, the error e is wrapped
parse_failure(c, e) ==
    [end |-> Raise(ValueError(<<Lit("Failed to parse JSON response: "), Fmt(e)>>)),
     log |-> << <<Lit("Error parsing response: "), Fmt(c)>> >>]

\* response.choices[0].message.content
first_content(response) == Val(response.choices)[1].message.content

\* create_assessment once it has the content c of the first choice: how it
\* ends, the text it parsed, the steps it took and what it logged
parse_content(c) ==
    LET data == _clean_json(c)
        validated == model_validate(Val(data.end))
        parsed == IF data.loaded = NotReached THEN <<>> ELSE <<"parse">>
    IN  IF Tag(data.end) = "return" /\ Tag(validated) = "return"
        THEN [end |-> Return(Val(validated)),
              content |-> c,
              loaded |-> data.loaded,
              steps |-> <<"extract", "clean", "parse", "validate">>,
              log |-> <<>>]
        ELSE
            LET e == IF Tag(data.end) = "raise" THEN Val(data.end)
                     ELSE Val(validated)
            IN  [end |-> parse_failure(c, e).end,
                 content |-> c,
                 loaded |-> data.loaded,
                 steps |-> <<"extract", "clean">> \o parsed
                           \o (IF Tag(data.end) = "return" THEN <<"validate">>
                               ELSE <<>>),
                 log |-> parse_failure(c, e).log]

\* create_assessment when the reply has no choice
no_choices ==
    [end |-> Raise(ValueError(
                <<Lit("No response from the LLM or invalid response format.")>>)),
     content |-> NotReached,
     loaded |-> NotReached,
     steps |-> <<>>,
     log |-> <<>>]

\* a reply handler whose missing else branch returns None for no choice
create_assessment_reply_no_else(response) ==
    IF Truthy(response.choices) THEN parse_content(first_content(response))
    ELSE [end |-> Return(None), content |-> NotReached, loaded |-> NotReached,
          steps |-> <<>>, log |-> <<>>]

\* create_assessment from the reply on
create_assessment_reply(response) ==
    IF Truthy(response.choices) THEN parse_content(first_content(response))
    ELSE no_choices

\* a facade that wraps what create_assessment raises in an error of its own
invoke_end_wrapped(llm_end) ==
    IF Tag(llm_end) = "raise"
    THEN Raise(ValueError(<<Lit("Assessment generation failed: "), Fmt(Val(llm_end))>>))
    ELSE llm_end

\* what invoke does with the end of create_assessment
invoke_end(llm_end) == llm_end

\* a type check that lets a dict with the request's keys through
isinstance_or_dict(request) == Tag(request) \in {"AssessmentRequest", "obj"}

\* isinstance(request, AssessmentRequest)
isinstance_AssessmentRequest(request) == Tag(request) = "AssessmentRequest"

\* AssesmentAgent.invoke(request), up to the completion call it waits for
invoke(request) ==
    /\ pc = "idle"
    /\ arg' = request
    /\ IF ~isinstance_AssessmentRequest(request) THEN
           /\ out' = Raise(ValueError(<<Lit("Invalid request type")>>))
           /\ steps' = <<"isinstance">>
           /\ pc' = "done"
           /\ UNCHANGED <<sent, llm_out>>
       ELSE
           LET prompt == render_prompt("assesment", model_dump(request))
           IN  IF Tag(prompt) = "raise" THEN
                   /\ llm_out' = prompt
                   /\ out' = invoke_end(prompt)
                   /\ steps' = <<"isinstance", "render">>
                   /\ pc' = "done"
                   /\ UNCHANGED sent
               ELSE
                   /\ sent' = Append(sent, Completion(Val(prompt)))
                   /\ steps' = <<"isinstance", "render", "call">>
                   /\ pc' = "calling"
                   /\ UNCHANGED <<llm_out, out>>
    /\ UNCHANGED <<formvars, templates, reply, content, loaded, log, kwargs, built>>

\* the completion call raises e
completion_raises(e) ==
    /\ pc = "calling"
    /\ reply' = Raise(e)
    /\ llm_out' = Raise(e)
    /\ out' = invoke_end(Raise(e))
    /\ pc' = "done"
    /\ UNCHANGED <<formvars, templates, arg, sent, content, loaded, steps, log, kwargs, built>>

\* a reply handler that asks the service again when the reply does not parse
completion_returns_retry(response) ==
    /\ pc = "calling"
    /\ reply' = Return(response)
    /\ LET r == create_assessment_reply(response)
           again == Tag(r.end) = "raise" /\ Len(sent) < 2
       IN  /\ content' = r.content
           /\ loaded' = r.loaded
           /\ steps' = steps \o r.steps
           /\ log' = log \o r.log
           /\ llm_out' = IF again THEN llm_out ELSE r.end
           /\ out' = IF again THEN out ELSE invoke_end(r.end)
           /\ sent' = IF again THEN Append(sent, sent[1]) ELSE sent
           /\ pc' = IF again THEN "calling" ELSE "done"
    /\ UNCHANGED <<formvars, templates, arg, kwargs, built>>

\* the completion call returns response
completion_returns(response) ==
    /\ pc = "calling"
    /\ reply' = Return(response)
    /\ LET r == create_assessment_reply(response)
       IN  /\ content' = r.content
           /\ loaded' = r.loaded
           /\ steps' = steps \o r.steps
           /\ log' = log \o r.log
           /\ llm_out' = r.end
           /\ out' = invoke_end(r.end)
    /\ pc' = "done"
    /\ UNCHANGED <<formvars, templates, arg, sent, kwargs, built>>

\* the caller has the outcome; the next press of the button starts afresh
next_invocation ==
    /\ pc = "done"
    /\ pc' = "idle"
    /\ arg' = NotReached
    /\ sent' = <<>>
    /\ reply' = Pending
    /\ content' = NotReached
    /\ loaded' = NotReached
    /\ steps' = <<>>
    /\ log' = <<>>
    /\ llm_out' = Pending
    /\ out' = Pending
    /\ UNCHANGED <<formvars, templates, kwargs, built>>

\* AssessmentRequest(...) with the keyword arguments kwargs
construct ==
    /\ built = Pending
    /\ kwargs # NotReached
    /\ built' = AssessmentRequest(kwargs)
    /\ UNCHANGED <<formvars, pc, templates, arg, sent, reply, content, loaded, steps, log,
                   llm_out, out, kwargs>>

(***************************************************************************)
(* The assessment form of app.py.  A slider holds tenths, 0..10 for 0.0 to *)
(* 1.0 in steps of 0.1, and sums are compared in hundredths, where the     *)
(* rounding of the floating-point sum (far below 0.01) does not show.      *)
(***************************************************************************)
SliderTenths == 0..10
\* longest history that the model lets the session grow
MaxHistory == 2
Sliders ==
    {"mcq_percentage", "short_answer_percentage", "long_answer_percentage"}
Pages == {"Generate Assessment", "View Current Assessment", "Assessment History"}

\* total_percentage, in hundredths
total_percentage(mcq, short, long) == 10 * (mcq + short + long)

Abs(n) == IF n < 0 THEN 0 - n ELSE n

\* what the form displays above the button: the warning about the sum
Warnings(total) ==
    IF Abs(total - 100) > 1
    THEN << <<"warning", <<Lit("Question type percentages should sum to 1.0 (current: "),
                           Fmt(total), Lit(")")>> >> >>
    ELSE <<>>

PercentagesError ==
    <<"error", <<Lit("Please ensure question type percentages sum to 1.0")>> >>
GenerationError(e) ==
    <<"error", <<Lit("Error generating assessment: "), Fmt(e)>> >>
Success == <<"success", <<Lit("Assessment generated successfully!")>> >>

\* initialize_session_state, and the widgets at their default values
FormStart ==
    /\ mcq_percentage = 4
    /\ short_answer_percentage = 3
    /\ long_answer_percentage = 3
    /\ current_assessment = None
    /\ assessment_history = <<>>
    /\ current_page = "Generate Assessment"
    /\ shown = <<>>

\* the keyword arguments of the request that the form builds
FormRequest(mcq, short, long) ==
    KeywordsOf(Num(50), Num(5), Float(mcq), Float(short), Float(long),
               Str(Chars("understand")), Str(Chars("medium")))

\* how the completion call of the form's agent may end
FormServices ==
    {Raise(e) : e \in TransportErrors}
    \cup {Return([choices |-> Arr(<<>>)]),
          Return([choices |-> Arr(<<Choice(Str(Dump(ResultDoc)))>>)]),
          Return([choices |-> Arr(<<Choice(Str(Wrap("json", Dump(ResultDoc))))>>)]),
          Return([choices |-> Arr(<<Choice(Str(Wrap("bare", Dump(ResultDoc))))>>)])}

\* an invocation that ended before the completion call: its variables
not_called(taken, llm_end, end) ==
    [sent |-> <<>>, reply |-> Pending, content |-> NotReached,
     loaded |-> NotReached, log |-> <<>>, steps |-> taken, llm_out |-> llm_end,
     out |-> end]

\* an invocation whose completion call ended with service, create_assessment
\* going on from the reply as r tells
called(prompt, service, r) ==
    [sent |-> <<Completion(prompt)>>, reply |-> service, content |-> r.content,
     loaded |-> r.loaded, log |-> r.log,
     steps |-> <<"isinstance", "render", "call">> \o r.steps,
     llm_out |-> r.end, out |-> invoke_end(r.end)]

\* create_assessment with the prompt rendered, or not
create_assessment_from(prompt, service) ==
    IF Tag(prompt) = "raise"
    THEN not_called(<<"isinstance", "render">>, prompt, invoke_end(prompt))
    ELSE IF Tag(service) = "raise"
    THEN called(Val(prompt), service,
                [end |-> service, content |-> NotReached, loaded |-> NotReached,
                 steps |-> <<>>, log |-> <<>>])
    ELSE called(Val(prompt), service, create_assessment_reply(Val(service)))

\* AssesmentAgent().invoke(request) as one call, the service ending the
\* completion call with service: every variable of the invocation at its end
invocation(request, service) ==
    IF ~isinstance_AssessmentRequest(request)
    THEN not_called(<<"isinstance">>, Pending,
                    Raise(ValueError(<<Lit("Invalid request type")>>)))
    ELSE create_assessment_from(render_prompt("assesment", model_dump(request)),
                                service)

\* the entry that a generated result adds to the history
HistoryEntry(result) ==
    [timestamp |-> "datetime.now()",
     title |-> Val(result).title,
     curriculum |-> Str(<<"C">>),
     questions |-> Len(Val(Val(result).questions)),
     marks |-> 50,
     result |-> result]

\* the user moves one slider: the script runs again and shows the form
slide(slider, tenths) ==
    /\ pc = "idle"
    /\ current_page = "Generate Assessment"
    /\ mcq_percentage' =
           IF slider = "mcq_percentage" THEN tenths ELSE mcq_percentage
    /\ short_answer_percentage' =
           IF slider = "short_answer_percentage" THEN tenths
           ELSE short_answer_percentage
    /\ long_answer_percentage' =
           IF slider = "long_answer_percentage" THEN tenths
           ELSE long_answer_percentage
    /\ <<mcq_percentage', short_answer_percentage', long_answer_percentage'>>
           # <<mcq_percentage, short_answer_percentage, long_answer_percentage>>
    /\ shown' = Warnings(total_percentage(mcq_percentage', short_answer_percentage',
                                          long_answer_percentage'))
    /\ UNCHANGED <<current_assessment, assessment_history, current_page>>
    /\ UNCHANGED <<pc, templates, arg, sent, reply, content, loaded, steps, log,
                   llm_out, out, kwargs, built>>

\* the handler of the button once the sum was let through: request is how
\* the construction of the request ended, i the invocation of the agent
generate(total, request, i) ==
    IF Tag(request) = "raise" THEN
        /\ shown' = Warnings(total) \o <<GenerationError(Val(request))>>
        /\ UNCHANGED <<arg, sent, reply, content, loaded, steps, log, llm_out, out,
                       current_assessment, assessment_history, current_page>>
    ELSE
        /\ arg' = Val(request)
        /\ sent' = i.sent
        /\ reply' = i.reply
        /\ content' = i.content
        /\ loaded' = i.loaded
        /\ steps' = i.steps
        /\ log' = i.log
        /\ llm_out' = i.llm_out
        /\ out' = i.out
        /\ IF Tag(i.out) = "return" THEN
               /\ current_assessment' = Val(i.out)
               /\ assessment_history' =
                      Append(assessment_history, HistoryEntry(Val(i.out)))
               /\ current_page' = "View Current Assessment"
               /\ shown' = Warnings(total) \o <<Success>>
           ELSE
               /\ shown' = Warnings(total) \o <<GenerationError(Val(i.out))>>
               /\ UNCHANGED <<current_assessment, assessment_history, current_page>>

\* a press of the button Generate Assessment: the handler up to its end, the
\* completion call of the agent ending with service
press_generate(service) ==
    LET total == total_percentage(mcq_percentage, short_answer_percentage,
                                  long_answer_percentage)
        keywords == FormRequest(mcq_percentage, short_answer_percentage,
                                long_answer_percentage)
    IN  /\ pc = "idle"
        /\ current_page = "Generate Assessment"
        /\ Len(assessment_history) < MaxHistory
        /\ UNCHANGED <<templates, mcq_percentage, short_answer_percentage,
                       long_answer_percentage>>
        /\ IF total <= 101 THEN
               /\ pc' = "done"
               /\ kwargs' = keywords
               /\ built' = AssessmentRequest(keywords)
               /\ \E i \in {invocation(Val(built'), service)} :
                      generate(total, built', i)
           ELSE
               /\ shown' = Warnings(total) \o <<PercentagesError>>
               /\ UNCHANGED <<pc, arg, sent, reply, content, loaded, steps, log,
                              llm_out, out, kwargs, built, current_assessment,
                              assessment_history, current_page>>

\* the run of the script that handled the press ends: its locals are gone,
\* the next run displays the page afresh
script_run_ends ==
    /\ pc = "done"
    /\ pc' = "idle"
    /\ arg' = NotReached
    /\ sent' = <<>>
    /\ reply' = Pending
    /\ content' = NotReached
    /\ loaded' = NotReached
    /\ steps' = <<>>
    /\ log' = <<>>
    /\ llm_out' = Pending
    /\ out' = Pending
    /\ kwargs' = NotReached
    /\ built' = Pending
    /\ shown' = IF current_page = "Generate Assessment"
                THEN Warnings(total_percentage(mcq_percentage,
                         short_answer_percentage, long_answer_percentage))
                ELSE <<>>
    /\ UNCHANGED <<templates, mcq_percentage, short_answer_percentage,
                   long_answer_percentage, current_assessment, assessment_history,
                   current_page>>

\* the user selects a page in the sidebar
select_page(page) ==
    /\ pc = "idle"
    /\ page # current_page
    /\ current_page' = page
    /\ shown' = IF page = "Generate Assessment"
                THEN Warnings(total_percentage(mcq_percentage,
                         short_answer_percentage, long_answer_percentage))
                ELSE <<>>
    /\ UNCHANGED <<mcq_percentage, short_answer_percentage, long_answer_percentage,
                   current_assessment, assessment_history>>
    /\ UNCHANGED <<pc, templates, arg, sent, reply, content, loaded, steps, log,
                   llm_out, out, kwargs, built>>

Idle ==
    /\ pc = "idle"
    /\ arg = NotReached
    /\ sent = <<>>
    /\ reply = Pending
    /\ content = NotReached
    /\ loaded = NotReached
    /\ steps = <<>>
    /\ log = <<>>
    /\ llm_out = Pending
    /\ out = Pending

Init ==
    /\ Idle
    /\ FormStart
    /\ templates \in {{"assesment.j2"}, {}}
    /\ kwargs = NotReached
    /\ built = Pending

Next ==
    \/ \E request \in Arguments : invoke(request)
    \/ \E e \in TransportErrors : completion_raises(e)
    \/ \E response \in Responses : completion_returns(response)
    \/ next_invocation

Spec == Init /\ [][Next]_vars

InitRequest ==
    /\ Idle
    /\ FormStart
    /\ templates = {"assesment.j2"}
    /\ kwargs \in KeywordChoices
    /\ built = Pending

NextRequest == construct

SpecRequest == InitRequest /\ [][NextRequest]_vars

InitForm ==
    /\ Idle
    /\ FormStart
    /\ templates = {"assesment.j2"}
    /\ kwargs = NotReached
    /\ built = Pending

NextForm ==
    \/ \E slider \in Sliders : \E tenths \in SliderTenths : slide(slider, tenths)
    \/ \E service \in FormServices : press_generate(service)
    \/ script_run_ends
    \/ \E page \in Pages : select_page(page)

SpecForm == InitForm /\ [][NextForm]_vars

(***************************************************************************)
(* Properties.                                                             *)
(***************************************************************************)
Done == pc = "done"
Range(s) == {s[n] : n \in DOMAIN s}

\* the failure of a reply without choices
EmptyResponse ==
    Raise(ValueError(<<Lit("No response from the LLM or invalid response format.")>>))

\* the failure o is the parse failure: a ValueError whose message starts
\* with the parse prefix
IsParseError(o) ==
    /\ Tag(o) = "raise"
    /\ Cls(Val(o)) = "ValueError"
    /\ Len(Args(Val(o))) >= 1
    /\ Args(Val(o))[1] = Lit("Failed to parse JSON response: ")

\* the service replied and its reply has at least one choice
RepliedWithChoice ==
    /\ Tag(reply) = "return"
    /\ Tag(Val(reply).choices) = "arr"
    /\ Val(Val(reply).choices) # <<>>

\* C1: a reply with zero completion choices makes Generate fail with the
\* EmptyResponse condition and nothing else happens: no content is read,
\* nothing is cleaned, parsed, validated or logged, no second call is issued
\* and no result is returned.
C1_EmptyReplyFailsAtOnce ==
    (Done /\ reply = Return([choices |-> Arr(<<>>)])) =>
        /\ llm_out = EmptyResponse
        /\ out = EmptyResponse
        /\ steps = <<"isinstance", "render", "call">>
        /\ content = NotReached
        /\ loaded = NotReached
        /\ log = <<>>
        /\ Len(sent) = 1

C1_Witness ==
    /\ Done
    /\ reply = Return([choices |-> Arr(<<>>)])
    /\ out = EmptyResponse

\* the characters that the text of the underlying error e never holds:
\* str() of a JSONDecodeError is "<msg>: line L column C (char N)", which has
\* no backquote, brace, bracket or newline; no message holds a backquote
NeverInDetail(e) ==
    IF Cls(e) = "JSONDecodeError" THEN {Backquote, "{", "}", "[", "]", "\n"}
    ELSE {Backquote}

\* the message of the exception exc holds the text raw: raw is interpolated
\* into it, or raw is made of characters that the message may hold by chance
MessageHolds(exc, raw) ==
    \/ Fmt(Str(raw)) \in Range(Args(exc))
    \/ /\ Len(Args(exc)) = 2
       /\ Tag(Args(exc)[2]) = "fmt"
       /\ Range(raw) \cap NeverInDetail(Val(Args(exc)[2])) = {}

\* the reply text could not be parsed, or what it parsed to was not valid
ParseOrValidationFailed ==
    /\ Done
    /\ RepliedWithChoice
    /\ Tag(content) = "str"
    /\ Tag(llm_out) = "raise"

\* C2, as claimed: a failure to parse or to validate the reply is a
\* ParseError that contains the original raw reply text.
C2_ParseErrorHoldsRawText ==
    ParseOrValidationFailed =>
        /\ IsParseError(out)
        /\ MessageHolds(Val(out), Val(content))

\* C2, amended: a failure to parse or to validate the reply is a ParseError
\* whose message is the parse prefix followed by the underlying error, a
\* JSONDecodeError or a ValidationError; the raw reply text is not put into
\* the failure, it is written to the error log.
C2_ParseErrorHoldsDetailRawTextIsLogged ==
    ParseOrValidationFailed =>
        /\ IsParseError(out)
        /\ Len(Args(Val(out))) = 2
        /\ Tag(Args(Val(out))[2]) = "fmt"
        /\ Cls(Val(Args(Val(out))[2])) \in {"JSONDecodeError", "ValidationError"}
        /\ Fmt(content) \notin Range(Args(Val(out)))
        /\ log = << <<Lit("Error parsing response: "), Fmt(content)>> >>

C2_Witness ==
    /\ ParseOrValidationFailed
    /\ content = Str(Dump(Without(ResultDoc, Chars("metadata"))))
    /\ Cls(Val(Args(Val(out))[2])) = "ValidationError"
    /\ log # <<>>

\* the value x is an instance of class cls whose fields f all satisfy Ok
IsText(x) == Tag(x) = "str"
IsOptionalText(x) == Tag(x) \in {"str", "null"}
IsMCQOption(x) ==
    /\ Tag(x) = "MCQOption"
    /\ IsText(Val(x).option_id)
    /\ IsText(Val(x).text)
    /\ Tag(Val(x).is_correct) = "bool"
IsAnswerKey(x) ==
    /\ Tag(x) = "AnswerKey"
    /\ Tag(Val(x).correct_answer) \in {"null", "str", "arr"}
    /\ IsOptionalText(Val(x).explanation)
    /\ IsOptionalText(Val(x).marking_criteria)
    /\ Tag(Val(x).key_points) \in {"null", "arr"}
IsQuestion(x) ==
    /\ Tag(x) = "Question"
    /\ Val(x).question_type \in {Str(s) : s \in QuestionType}
    /\ IsText(Val(x).question_text)
    /\ Tag(Val(x).marks) = "int" /\ Val(Val(x).marks) >= 1
    /\ Val(x).blooms_level \in {Str(s) : s \in BloomsTaxonomyLevel}
    /\ Val(x).difficulty \in {Str(s) : s \in DifficultyLevel}
    /\ \/ Val(x).options = None
       \/ /\ Tag(Val(x).options) = "arr"
          /\ \A o \in Range(Val(Val(x).options)) : IsMCQOption(o)
    /\ IsAnswerKey(Val(x).answer_key)
IsAssessmentMetadata(x) ==
    /\ Tag(x) = "AssessmentMetadata"
    /\ Tag(Val(x).total_questions) = "int"
    /\ Tag(Val(x).total_marks) = "int"
    /\ Tag(Val(x).difficulty_distribution) = "obj"
    /\ Tag(Val(x).question_type_distribution) = "obj"
    /\ Tag(Val(x).blooms_level_coverage) = "obj"
IsAssessmentResult(x) ==
    /\ Tag(x) = "AssessmentResult"
    /\ IsText(Val(x).title)
    /\ IsText(Val(x).curriculum_standard)
    /\ IsText(Val(x).learning_objectives)
    /\ Val(x).target_blooms_level \in {Str(s) : s \in BloomsTaxonomyLevel}
    /\ Tag(Val(x).questions) = "arr"
    /\ \A q \in Range(Val(Val(x).questions)) : IsQuestion(q)
    /\ IsAssessmentMetadata(Val(x).metadata)
    /\ IsText(Val(x).student_instructions)

\* the keys a JSON object must have to be read as an instance of each class
RequiredOfResult ==
    {Chars("title"), Chars("curriculum_standard"), Chars("learning_objectives"), Chars("target_blooms_level"),
     Chars("questions"), Chars("metadata"), Chars("student_instructions")}
RequiredOfQuestion ==
    {Chars("question_type"), Chars("question_text"), Chars("marks"), Chars("blooms_level"), Chars("difficulty"),
     Chars("answer_key")}
RequiredOfMetadata ==
    {Chars("total_questions"), Chars("total_marks"), Chars("difficulty_distribution"),
     Chars("question_type_distribution"), Chars("blooms_level_coverage")}
RequiredOfOption == {Chars("option_id"), Chars("text")}

Lacks(x, keys) == Tag(x) = "obj" /\ \E key \in keys : ~HasKey(Val(x), key)
Items(x) == IF Tag(x) = "arr" THEN Range(Val(x)) ELSE {}

\* the JSON object x lacks a required field, at the top or in its metadata,
\* in one of its questions or in one of their options
LacksRequiredField(x) ==
    \/ Lacks(x, RequiredOfResult)
    \/ /\ Tag(x) = "obj"
       /\ \/ Lacks(Get(Val(x), Chars("metadata")), RequiredOfMetadata)
          \/ \E q \in Items(Get(Val(x), Chars("questions"))) :
                \/ Lacks(q, RequiredOfQuestion)
                \/ /\ Tag(q) = "obj"
                   /\ \E o \in Items(Get(Val(q), Chars("options"))) :
                          Lacks(o, RequiredOfOption)

\* what json.loads made of the text handed to it
LoadedData == json_loads(Val(loaded))

\* C3: Generate returns a result only when the cleaned reply parsed as JSON
\* and the whole structure, nested classes included, is a valid
\* AssessmentResult; a reply that is valid JSON but lacks a required field
\* fails with the ParseError and no result is returned.
C3_ResultOnlyWhenParsedAndValid ==
    Done =>
        /\ Tag(llm_out) = "return" =>
               /\ Tag(loaded) = "str"
               /\ Tag(LoadedData) = "return"
               /\ ~LacksRequiredField(Val(LoadedData))
               /\ IsAssessmentResult(Val(llm_out))
               /\ out = llm_out
        /\ (/\ Tag(loaded) = "str"
            /\ Tag(LoadedData) = "return"
            /\ LacksRequiredField(Val(LoadedData))) =>
               /\ IsParseError(llm_out)
               /\ out = llm_out

C3_Witness ==
    /\ Done
    /\ loaded = Str(Dump(Without(ResultDoc, Chars("metadata"))))
    /\ IsParseError(out)

\* C4, as claimed: an argument that is not an AssessmentRequest makes invoke
\* fail with a TypeError before it delegates: create_assessment is not
\* entered and no completion call is issued.
C4_NotARequestFailsWithTypeError ==
    (pc # "idle" /\ Tag(arg) # "AssessmentRequest") =>
        /\ Done
        /\ Tag(out) = "raise"
        /\ Cls(Val(out)) = "TypeError"
        /\ llm_out = Pending
        /\ sent = <<>>

\* C4, amended: an argument that is not an AssessmentRequest makes invoke
\* fail with ValueError("Invalid request type") before it delegates:
\* create_assessment is not entered and no completion call is issued.
C4_NotARequestFailsBeforeDelegating ==
    (pc # "idle" /\ Tag(arg) # "AssessmentRequest") =>
        /\ Done
        /\ out = Raise(ValueError(<<Lit("Invalid request type")>>))
        /\ llm_out = Pending
        /\ steps = <<"isinstance">>
        /\ reply = Pending
        /\ sent = <<>>

C4_Witness ==
    /\ Done
    /\ arg = FormKeywords
    /\ Tag(out) = "raise"

\* C8: an execution of Generate issues at most one completion call, however
\* it ends; once it has ended after a call, exactly one call was issued.
C8_AtMostOneCompletionCall ==
    /\ Len(sent) <= 1
    /\ (Done /\ reply # Pending) => Len(sent) = 1

C8_Witness ==
    /\ Done
    /\ IsParseError(llm_out)
    /\ Len(sent) = 1

\* C9: a failure raised by the completion call reaches the caller of
\* create_assessment and then the caller of invoke as the same exception,
\* nothing is logged in its place; and whatever create_assessment raises,
\* invoke raises the same.
C9_FailuresPropagateUnchanged ==
    /\ (Done /\ Tag(reply) = "raise") =>
           /\ llm_out = reply
           /\ out = reply
           /\ log = <<>>
           /\ Val(out) \in TransportErrors
    /\ (Done /\ Tag(llm_out) = "raise") => out = llm_out

C9_Witness ==
    /\ Done
    /\ Tag(reply) = "raise"
    /\ Cls(Val(out)) = "RateLimitError"

\* the text has no whitespace at either end
NoEdgeWhitespace(text) == strip(text) = text
\* the text holds no code fence: no three backquotes in a row
NoFence(text) ==
    \A n \in 1..(Len(text) - 2) : SubSeq(text, n, n + 2) # Fence

\* {"a":1}
Example == <<"{", "\"", "a", "\"", ":", "1", "}">>

\* the reply text is the payload P in the fence variant, and it was cleaned
Cleaned(variant, P) == Done /\ content = Str(Wrap(variant, P))

\* C5: for every payload P without whitespace at its ends and without a
\* fence, the reply text made of the fence opener tagged json, a newline, P,
\* a newline and the closing fence is cleaned to exactly P, which is the text
\* handed to the JSON parser and what decides how the parse ends.
C5_JsonFenceCleansToPayload ==
    \A P \in Payloads :
        (Cleaned("json", P) /\ NoEdgeWhitespace(P) /\ NoFence(P)) =>
            /\ loaded = Str(P)
            /\ Tag(json_loads(P)) = "raise" =>
                   llm_out = parse_failure(content, Val(json_loads(P))).end

C5_Witness ==
    /\ Cleaned("json", Example)
    /\ loaded = Str(Example)

\* C6, as claimed: a fence without the language tag, or fences with
\* whitespace before or after them, are cleaned to the payload just as the
\* json-tagged form is, so that a valid JSON payload in any of these
\* variants is parsed successfully.
C6_EveryFenceVariantCleansToPayload ==
    \A P \in Payloads : \A variant \in {"bare", "leading", "trailing"} :
        (Cleaned(variant, P) /\ NoEdgeWhitespace(P) /\ NoFence(P)) =>
            /\ loaded = Str(P)
            /\ Tag(json_loads(P)) = "return" => ~IsParseError(llm_out)

\* C7: a reply text that holds no code fence is handed to the JSON parser
\* unchanged, whitespace at its ends included.
C7_NoFenceNoChange ==
    (Done /\ Tag(content) = "str" /\ NoFence(Val(content))) => loaded = content

C7_Witness ==
    /\ Done
    /\ content = Str(<<" ", "1", "\n">>)
    /\ loaded = content
    /\ Tag(llm_out) = "raise"

\* the keyword argument key of the construction, Absent when not passed
Given(key) == Get(Val(kwargs), key)
Constructed == Tag(built) = "return"
Field(name) == Val(Val(built))[name]
Fractions == {"mcq_percentage", "short_answer_percentage", "long_answer_percentage"}
FractionKeys ==
    {Chars("mcq_percentage"), Chars("short_answer_percentage"), Chars("long_answer_percentage")}
InUnitInterval(x) == Tag(x) = "float" /\ Val(x) >= 0 /\ Val(x) <= 10

\* the construction was given a total_marks below 1, a fraction outside
\* [0,1] or a cognitive level that is not one
GivenOutOfBounds ==
    \/ Tag(Given(Chars("total_marks"))) = "int" /\ Val(Given(Chars("total_marks"))) <= 0
    \/ \E key \in FractionKeys :
           Tag(Given(key)) = "float" /\ ~InUnitInterval(Given(key))
    \/ /\ Tag(Given(Chars("blooms_taxonomy_level"))) = "str"
       /\ Val(Given(Chars("blooms_taxonomy_level"))) \notin BloomsTaxonomyLevel

\* what holds of every constructed request whatever its fractions are
BoundsAndEnumsHold ==
    /\ Tag(Field("total_marks")) = "int"
    /\ Val(Field("total_marks")) >= 1
    /\ Tag(Field("number_of_questions")) = "int"
    /\ Val(Field("number_of_questions")) >= 1
    /\ Field("blooms_taxonomy_level") \in {Str(s) : s \in BloomsTaxonomyLevel}
    /\ Field("toughness_level") \in {Str(s) : s \in DifficultyLevel}

\* C10, as claimed: a constructed AssessmentRequest has total_marks >= 1,
\* number_of_questions >= 1, each mix fraction a number in [0,1] and enum
\* members as levels; a total_marks below 1, a fraction outside [0,1] or an
\* unrecognized cognitive level makes the construction fail.
C10_FractionsAreNumbers ==
    built # Pending =>
        /\ Constructed =>
               /\ BoundsAndEnumsHold
               /\ \A name \in Fractions : InUnitInterval(Field(name))
        /\ GivenOutOfBounds => ~Constructed

\* C10, amended: a constructed AssessmentRequest has total_marks >= 1,
\* number_of_questions >= 1, each mix fraction either None or a number in
\* [0,1], and enum members as levels; a total_marks below 1, a fraction
\* outside [0,1] or an unrecognized cognitive level makes the construction
\* fail with a ValidationError and no request value.
C10_FractionsAreNumbersOrNone ==
    built # Pending =>
        /\ Constructed =>
               /\ BoundsAndEnumsHold
               /\ \A name \in Fractions :
                      Field(name) = None \/ InUnitInterval(Field(name))
        /\ GivenOutOfBounds =>
               built = Raise(ValidationError("AssessmentRequest"))

C10_Witness ==
    /\ Constructed
    /\ Given(Chars("mcq_percentage")) = None
    /\ Field("mcq_percentage") = None
    /\ Field("total_marks") = Num(1)

\* the steps of create_assessment, in the order of its statements
GenerateOrder == <<"render", "call", "extract", "clean", "parse", "validate">>
IsPrefix(s, t) == Len(s) <= Len(t) /\ SubSeq(t, 1, Len(s)) = s
Took(step) == step \in Range(steps)

\* the one completion call that create_assessment may issue for the request
\* arg: the fixed system message, then the rendered prompt as user message
ExpectedCall ==
    [model |-> "LLM_MODEL",
     messages |->
         << [role |-> "system",
             content |-> Lit("You are an expert assessment generator.")],
            [role |-> "user",
             content |-> Rendered("assesment.j2", Val(arg))] >>]

\* C11: create_assessment takes its steps in the order render, call,
\* extract, clean, parse, validate, and a step is taken only when every step
\* before it succeeded: when the template does not resolve no completion call
\* is issued, and the call that is issued carries the fixed system message
\* followed by the rendered prompt as the user message.
C11_StepsInFixedOrder ==
    /\ steps # <<>> =>
           /\ Head(steps) = "isinstance"
           /\ IsPrefix(Tail(steps), GenerateOrder)
    /\ Took("render") => Tag(arg) = "AssessmentRequest"
    /\ Took("call") <=> sent # <<>>
    /\ Took("call") =>
           /\ "assesment.j2" \in templates
           /\ sent = <<ExpectedCall>>
    /\ Took("extract") => RepliedWithChoice
    /\ Took("parse") => Tag(content) = "str" /\ Tag(loaded) = "str"
    /\ Took("validate") => Tag(json_loads(Val(loaded))) = "return"
    /\ (Done /\ Tag(llm_out) = "return") => Tail(steps) = GenerateOrder
    /\ (pc # "idle" /\ Tag(arg) = "AssessmentRequest" /\ templates = {}) =>
           /\ Done
           /\ steps = <<"isinstance", "render">>
           /\ llm_out = Raise(TemplateNotFound("assesment.j2"))
           /\ out = llm_out
           /\ sent = <<>>
           /\ reply = Pending

C11_Witness ==
    /\ Done
    /\ Tag(llm_out) = "return"
    /\ Tail(steps) = GenerateOrder
    /\ sent = <<ExpectedCall>>

\* C12, as claimed: cleaning removes the opener with its tag, the closing
\* fence and the whitespace next to them, and nothing of the payload between
\* the fences but whitespace at its ends: also when the opener tagged json is
\* immediately followed by the payload, whose first character is kept.  The
\* payloads are the texts that are not empty and hold no backquote.
C12_CleaningKeepsThePayload ==
    \A P \in Payloads : \A variant \in {"json", "tight"} :
        (Cleaned(variant, P) /\ P # <<>> /\ Backquote \notin Range(P)) =>
            loaded = Str(strip(P))

\* what None.startswith raises
NoneHasNoStartswith ==
    AttributeError(<<Lit("'NoneType' object has no attribute 'startswith'")>>)

\* C13: once the reply has a choice, create_assessment either returns the
\* validated result or raises the parse failure, whatever went wrong with
\* the content of the first choice, a content of None included: no
\* AttributeError, JSONDecodeError or ValidationError reaches the caller,
\* and the content was logged, once, when the failure is raised.
C13_OneFailureForTheWholeParse ==
    (Done /\ RepliedWithChoice) =>
        /\ content = Val(Val(reply).choices)[1].message.content
        /\ out = llm_out
        /\ \/ Tag(llm_out) = "return" /\ log = <<>>
           \/ /\ IsParseError(llm_out)
              /\ Len(Args(Val(llm_out))) = 2
              /\ Tag(Args(Val(llm_out))[2]) = "fmt"
              /\ log = << <<Lit("Error parsing response: "), Fmt(content)>> >>
        /\ content = None =>
               /\ IsParseError(llm_out)
               /\ Args(Val(llm_out))[2] = Fmt(NoneHasNoStartswith)
               /\ loaded = NotReached

C13_Witness ==
    /\ Done
    /\ RepliedWithChoice
    /\ content = None
    /\ IsParseError(out)
    /\ log = << <<Lit("Error parsing response: "), Fmt(None)>> >>

\* the sum of the three sliders, in hundredths
SliderTotal ==
    total_percentage(mcq_percentage, short_answer_percentage, long_answer_percentage)
\* the sliders sum to 1.0 within the tolerance of 0.01
SumsToOne == Abs(SliderTotal - 100) <= 1

\* C14, as claimed: the form builds a request and invokes the agent only
\* when the three sliders sum to 1.0 within 0.01; for a sum above or below,
\* a press of the button shows the error about the sum, builds no request,
\* invokes no agent and leaves the session as it is, so that the handler is
\* never past its check with such a sum.
C14_AgentInvokedOnlyWhenSumIsOne ==
    /\ (pc = "done" \/ built # Pending \/ arg # NotReached \/ sent # <<>>)
           => SumsToOne
    /\ PercentagesError \in Range(shown) =>
           /\ ~SumsToOne
           /\ pc = "idle"
           /\ built = Pending
           /\ arg = NotReached
           /\ sent = <<>>
=============================================================================
